---- MODULE Spec2Model ----
(***************************************************************************)
(* The fingerprint HAL contract of fingerprint/include/fingerprint.h.      *)
(*                                                                         *)
(* The header declares the notification messages and the command table of  *)
(* fingerprint_device_t; what each command does is stated by the comment   *)
(* above its declaration.  This module is the state machine those comments *)
(* describe: one action per command of the table and one per notification  *)
(* the driver sends on its own.  Where a comment leaves an outcome open,    *)
(* the action chooses among the outcomes nondeterministically.              *)
(***************************************************************************)
EXTENDS Integers, Sequences, FiniteSets

(* ------------------------------------------------------------------ *)
(* Bounds of the model.                                                *)
(* ------------------------------------------------------------------ *)
MaxGroup == 2
MaxFid == 2
MaxSamples == 2
MaxChallenge == 2
MaxAttempts == 2
MaxAuthId == 4
MaxAcquired == 1

(* ------------------------------------------------------------------ *)
(* fingerprint_msg_type_t                                              *)
(* ------------------------------------------------------------------ *)
FINGERPRINT_ERROR == -1
FINGERPRINT_ACQUIRED == 1
FINGERPRINT_TEMPLATE_ENROLLING == 3
FINGERPRINT_TEMPLATE_REMOVED == 4
FINGERPRINT_AUTHENTICATED == 5
FINGERPRINT_TEMPLATE_ENUMERATING == 6
FINGERPRINT_CHALLENGE_GENERATED == 7
FINGERPRINT_CHALLENGE_REVOKED == 8
FINGERPRINT_AUTHENTICATOR_ID_INVALIDATED == 10
FINGERPRINT_RESET_LOCKOUT == 11

(* fingerprint_error_t *)
FINGERPRINT_ERROR_HW_UNAVAILABLE == 1
FINGERPRINT_ERROR_UNABLE_TO_PROCESS == 2
FINGERPRINT_ERROR_TIMEOUT == 3
FINGERPRINT_ERROR_NO_SPACE == 4
FINGERPRINT_ERROR_CANCELED == 5
FINGERPRINT_ERROR_UNABLE_TO_REMOVE == 6
FINGERPRINT_ERROR_LOCKOUT == 7

(* fingerprint_acquired_info_t *)
FINGERPRINT_ACQUIRED_GOOD == 0
FINGERPRINT_ACQUIRED_INSUFFICIENT == 2
FINGERPRINT_ACQUIRED_IMAGER_DIRTY == 3

Groups == 1..MaxGroup
Fids == 1..MaxFid
Challenges == 1..MaxChallenge

VARIABLES
    hal_state,          \* the HAL state machine: "idle", "enrolling", "authenticating"
    samples_remaining,  \* fingerprint_enroll_t.samples_remaining of the enrollment in flight
    finger,             \* fingerprint_enroll_t.finger of the enrollment in flight (0: none)
    msgs,               \* the messages notify() received since the last command was accepted
    event,              \* the last command accepted or notification step taken, with its argument
    templates,          \* group -> the finger ids enrolled in it
    activeGroup,        \* the group set by set_active_group
    authId,             \* the authenticator id of the current fingerprint set
    prevId,             \* what the last get_authenticator_id returned (0: not called yet)
    since,              \* what happened to the fingerprint set between the last two calls
    challenges,         \* the challenges generated and not revoked
    attempts,           \* the lockout counter
    strong              \* the sensor is configured as SensorStrength::STRONG

vars == <<hal_state, samples_remaining, finger, msgs, event, templates, activeGroup,
          authId, prevId, since, challenges, attempts, strong>>

(* fingerprint_msg_t: the type and the payload of the union member it selects. *)
Msg(type, data, remaining) == [type |-> type, data |-> data, remaining |-> remaining]

Error(code) == Msg(FINGERPRINT_ERROR, code, 0)

Event(name, arg) == [name |-> name, arg |-> arg]

Busy == hal_state \in {"enrolling", "authenticating"}

Lockout == attempts >= MaxAttempts

(* ------------------------------------------------------------------ *)
(* Helpers                                                             *)
(* ------------------------------------------------------------------ *)

(* The acquisition codes the model sends: the good image and two of the
   codes that ask the user to act. *)
AcquiredInfos ==
    {FINGERPRINT_ACQUIRED_GOOD, FINGERPRINT_ACQUIRED_INSUFFICIENT,
     FINGERPRINT_ACQUIRED_IMAGER_DIRTY}

(* The errors that end the operation in flight on the driver's own account. *)
OperationErrors ==
    {FINGERPRINT_ERROR_HW_UNAVAILABLE, FINGERPRINT_ERROR_UNABLE_TO_PROCESS,
     FINGERPRINT_ERROR_TIMEOUT}

(* The sequences that list every element of S once. *)
RECURSIVE Orders(_)
Orders(S) ==
    IF S = {} THEN {<<>>}
    ELSE UNION {{<<x>> \o rest : rest \in Orders(S \ {x})} : x \in S}

(* The elements of a sequence. *)
Range(s) == {s[i] : i \in 1..Len(s)}

(* The messages of type t in a log, in order. *)
OfType(log, t) == SelectSeq(log, LAMBDA m : m.type = t)

(* What the log of the interval since the last get_authenticator_id becomes
   when a step adds `tags` to it; nothing is logged before the first call. *)
SinceAfter(tags) ==
    IF prevId = 0 THEN since
    ELSE IF event.name = "get_authenticator_id" THEN tags
    ELSE since \cup tags

(* The finger ids the active group has not used. *)
FreeFids == Fids \ templates[activeGroup]

(* The finger ids enroll may assign: any the active group has not used, or
   none (0) when the group is full. *)
NewFids == IF FreeFids = {} THEN {0} ELSE FreeFids

(* A driver that keeps the token when the fingerprint set is replaced. *)
StaleSetId(id) == id

(* The token of the fingerprint set that replaces the one with token id. *)
NewSetId(id) == id + 1

(* A driver that counts the samples collected instead of those remaining. *)
SamplesCountedUp(r) == r + 1

(* samples_remaining after one more sample was collected. *)
SamplesAfter(r) == r - 1

(* remaining_templates of the k-th of n messages: how many are still to come. *)
RemainingAfter(k, n) == n - k

(* One message of type `type` per finger id of `order`, each with the count
   of the messages still to come; for no finger id at all, one message with
   finger id 0 and remaining 0. *)
Iterate(type, order) ==
    IF order = <<>> THEN <<Msg(type, 0, 0)>>
    ELSE [k \in 1..Len(order) |-> Msg(type, order[k], RemainingAfter(k, Len(order)))]

(* ------------------------------------------------------------------ *)
(* Initial state: the device was opened on an empty store, group 1.    *)
(* ------------------------------------------------------------------ *)
Init ==
    /\ hal_state = "idle"
    /\ samples_remaining = 0
    /\ finger = 0
    /\ msgs = <<>>
    /\ event = Event("open", 0)
    /\ templates = [g \in Groups |-> {}]
    /\ activeGroup = 1
    /\ authId = 1
    /\ prevId = 0
    /\ since = {}
    /\ challenges = {}
    /\ attempts = 0
    /\ strong \in BOOLEAN

(* ------------------------------------------------------------------ *)
(* enroll, and the notifications of an enrollment                      *)
(* ------------------------------------------------------------------ *)

(* enroll(): switches the state machine to enrolling; N scans are needed
   for the template of a finger id of the driver's choosing. *)
Enroll ==
    /\ hal_state = "idle"
    /\ hal_state' = "enrolling"
    /\ \E n \in 1..MaxSamples : samples_remaining' = n
    /\ finger' \in NewFids
    /\ msgs' = <<>>
    /\ event' = Event("enroll", 0)
    /\ since' = SinceAfter({})
    /\ UNCHANGED <<templates, activeGroup, authId, prevId, challenges, attempts, strong>>

(* A sample was collected: FINGERPRINT_TEMPLATE_ENROLLING with the scans
   still needed; at 0 the template is stored, the fingerprint set is a new
   one and the state machine switches back. *)
EnrollProgress ==
    /\ hal_state = "enrolling"
    /\ finger # 0
    /\ LET r == SamplesAfter(samples_remaining) IN
        /\ r = 0 => authId < MaxAuthId
        /\ samples_remaining' = r
        /\ msgs' = Append(msgs, Msg(FINGERPRINT_TEMPLATE_ENROLLING, finger, r))
        /\ event' = Event("enrolling", r)
        /\ IF r = 0
           THEN /\ hal_state' = "idle"
                /\ finger' = 0
                /\ templates' = [templates EXCEPT ![activeGroup] = @ \cup {finger}]
                /\ authId' = NewSetId(authId)
                /\ since' = SinceAfter({"add"})
           ELSE /\ UNCHANGED <<hal_state, finger, templates, authId>>
                /\ since' = SinceAfter({})
    /\ UNCHANGED <<activeGroup, prevId, challenges, attempts, strong>>

(* Feedback on the image during the operation in flight, which goes on. *)
Acquired(info) ==
    /\ Busy
    /\ Len(OfType(msgs, FINGERPRINT_ACQUIRED)) < MaxAcquired
    /\ msgs' = Append(msgs, Msg(FINGERPRINT_ACQUIRED, info, 0))
    /\ event' = Event("acquired", info)
    /\ since' = SinceAfter({})
    /\ UNCHANGED <<hal_state, samples_remaining, finger, templates, activeGroup, authId,
                   prevId, challenges, attempts, strong>>

(* A driver that sends the acquisition message and nothing after it. *)
AcquiredFatalSilent(info) ==
    /\ Busy
    /\ info # FINGERPRINT_ACQUIRED_GOOD
    /\ msgs' = Append(msgs, Msg(FINGERPRINT_ACQUIRED, info, 0))
    /\ event' = Event("acquired_fatal", info)
    /\ since' = SinceAfter({})
    /\ UNCHANGED <<hal_state, samples_remaining, finger, templates, activeGroup,
                   authId, prevId, challenges, attempts, strong>>

(* An acquisition message after which the operation cannot continue
   without the user: FINGERPRINT_ERROR_CANCELED follows it. *)
AcquiredFatal(info) ==
    /\ Busy
    /\ info # FINGERPRINT_ACQUIRED_GOOD
    /\ msgs' = msgs \o <<Msg(FINGERPRINT_ACQUIRED, info, 0),
                         Error(FINGERPRINT_ERROR_CANCELED)>>
    /\ hal_state' = "idle"
    /\ samples_remaining' = 0
    /\ finger' = 0
    /\ event' = Event("acquired_fatal", info)
    /\ since' = SinceAfter({})
    /\ UNCHANGED <<templates, activeGroup, authId, prevId, challenges, attempts, strong>>

(* An error ends the operation in flight: the hardware failed, the data was
   bad, the user did not act in time, or (enrolling) no space is left. *)
OperationError(code) ==
    /\ Busy
    /\ code = FINGERPRINT_ERROR_NO_SPACE => hal_state = "enrolling"
    /\ msgs' = Append(msgs, Error(code))
    /\ hal_state' = "idle"
    /\ samples_remaining' = 0
    /\ finger' = 0
    /\ event' = Event("error", code)
    /\ since' = SinceAfter({})
    /\ UNCHANGED <<templates, activeGroup, authId, prevId, challenges, attempts, strong>>

(* A cancel that notifies the error and leaves the state machine busy. *)
CancelStaysBusy ==
    /\ Busy
    /\ msgs' = Append(msgs, Error(FINGERPRINT_ERROR_CANCELED))
    /\ event' = Event("cancel", 0)
    /\ since' = SinceAfter({})
    /\ UNCHANGED <<hal_state, samples_remaining, finger, templates, activeGroup,
                   authId, prevId, challenges, attempts, strong>>

(* cancel(): FINGERPRINT_ERROR_CANCELED to the pending enroll or
   authenticate, back to idle; no challenge is invalidated. *)
Cancel ==
    /\ Busy
    /\ msgs' = Append(msgs, Error(FINGERPRINT_ERROR_CANCELED))
    /\ hal_state' = "idle"
    /\ samples_remaining' = 0
    /\ finger' = 0
    /\ event' = Event("cancel", 0)
    /\ since' = SinceAfter({})
    /\ UNCHANGED <<templates, activeGroup, authId, prevId, challenges, attempts, strong>>

(* ------------------------------------------------------------------ *)
(* authenticate, and the lockout counter                               *)
(* ------------------------------------------------------------------ *)

(* authenticate(): starts a match; in lockout the hardware reports
   FINGERPRINT_ERROR_LOCKOUT instead. *)
Authenticate ==
    /\ hal_state = "idle"
    /\ IF Lockout
       THEN /\ msgs' = <<Error(FINGERPRINT_ERROR_LOCKOUT)>>
            /\ UNCHANGED hal_state
       ELSE /\ msgs' = <<>>
            /\ hal_state' = "authenticating"
    /\ event' = Event("authenticate", 0)
    /\ since' = SinceAfter({})
    /\ UNCHANGED <<samples_remaining, finger, templates, activeGroup, authId, prevId,
                   challenges, attempts, strong>>

(* A finger of the active group matched: FINGERPRINT_AUTHENTICATED. *)
Authenticated(fid) ==
    /\ hal_state = "authenticating"
    /\ fid \in templates[activeGroup]
    /\ msgs' = Append(msgs, Msg(FINGERPRINT_AUTHENTICATED, fid, 0))
    /\ hal_state' = "idle"
    /\ event' = Event("authenticated", fid)
    /\ since' = SinceAfter({})
    /\ UNCHANGED <<samples_remaining, finger, templates, activeGroup, authId, prevId,
                   challenges, attempts, strong>>

(* An attempt that matched no finger counts towards the lockout; one
   attempt too many ends the operation with FINGERPRINT_ERROR_LOCKOUT. *)
Rejected ==
    /\ hal_state = "authenticating"
    /\ attempts' = attempts + 1
    /\ IF attempts + 1 >= MaxAttempts
       THEN /\ msgs' = Append(msgs, Error(FINGERPRINT_ERROR_LOCKOUT))
            /\ hal_state' = "idle"
       ELSE UNCHANGED <<msgs, hal_state>>
    /\ event' = Event("rejected", attempts + 1)
    /\ since' = SinceAfter({})
    /\ UNCHANGED <<samples_remaining, finger, templates, activeGroup, authId, prevId,
                   challenges, strong>>

(* The FINGERPRINT_ERROR codes reset_lockout may report a bad token with. *)
TokenErrors ==
    {FINGERPRINT_ERROR_HW_UNAVAILABLE, FINGERPRINT_ERROR_UNABLE_TO_PROCESS}

(* A reset_lockout that clears the counter without looking at the token. *)
ResetOutcomeUnverified(hatOk, code) ==
    [msgs |-> <<Msg(FINGERPRINT_RESET_LOCKOUT, 0, 0)>>, attempts |-> 0]

(* What reset_lockout notifies and leaves in the lockout counter, for a
   token that verified (hatOk = 1) and for one that did not, reported with
   the error `code`. *)
ResetOutcome(hatOk, code) ==
    IF hatOk = 1
    THEN [msgs |-> <<Msg(FINGERPRINT_RESET_LOCKOUT, 0, 0)>>, attempts |-> 0]
    ELSE [msgs |-> <<Error(code)>>, attempts |-> attempts]

(* reset_lockout(hat): clears the lockout counter after verifying the token. *)
ResetLockout(hatOk) ==
    /\ hal_state = "idle"
    /\ \E code \in TokenErrors :
        /\ msgs' = ResetOutcome(hatOk, code).msgs
        /\ attempts' = ResetOutcome(hatOk, code).attempts
    /\ event' = Event("reset_lockout", hatOk)
    /\ since' = SinceAfter({})
    /\ UNCHANGED <<hal_state, samples_remaining, finger, templates, activeGroup, authId,
                   prevId, challenges, strong>>

(* The lockout clears by itself after a timeout, and that is notified. *)
LockoutTimeout ==
    /\ Lockout
    /\ attempts' = 0
    /\ msgs' = Append(msgs, Msg(FINGERPRINT_RESET_LOCKOUT, 0, 0))
    /\ event' = Event("lockout_timeout", 0)
    /\ since' = SinceAfter({})
    /\ UNCHANGED <<hal_state, samples_remaining, finger, templates, activeGroup, authId,
                   prevId, challenges, strong>>

(* ------------------------------------------------------------------ *)
(* set_active_group, enumerate, remove                                 *)
(* ------------------------------------------------------------------ *)

(* set_active_group(): the operations that follow see this group only. *)
SetActiveGroup(gid) ==
    /\ hal_state = "idle"
    /\ activeGroup' = gid
    /\ msgs' = <<>>
    /\ event' = Event("set_active_group", gid)
    /\ since' = SinceAfter({})
    /\ UNCHANGED <<hal_state, samples_remaining, finger, templates, authId, prevId,
                   challenges, attempts, strong>>

(* An enumerate that walks the templates of every group. *)
EnumerateAllGroups == UNION {templates[g] : g \in Groups}

(* The templates enumerate walks: those of the directory set by
   set_active_group. *)
EnumerateScope == templates[activeGroup]

(* enumerate(): one FINGERPRINT_TEMPLATE_ENUMERATING per template found, in
   an order of the driver's choosing. *)
Enumerate ==
    /\ hal_state = "idle"
    /\ \E order \in Orders(EnumerateScope) :
        msgs' = Iterate(FINGERPRINT_TEMPLATE_ENUMERATING, order)
    /\ event' = Event("enumerate", Cardinality(EnumerateScope))
    /\ since' = SinceAfter({})
    /\ UNCHANGED <<hal_state, samples_remaining, finger, templates, activeGroup, authId,
                   prevId, challenges, attempts, strong>>

(* What remove may notify when none of the listed enrollments exists: the
   comment of remove does not say, so nothing, the empty iterator and
   FINGERPRINT_ERROR_UNABLE_TO_REMOVE are all possible. *)
NothingRemoved ==
    {<<>>, Iterate(FINGERPRINT_TEMPLATE_REMOVED, <<>>),
     <<Error(FINGERPRINT_ERROR_UNABLE_TO_REMOVE)>>}

(* remove(fids, count): removes the listed enrollments of the active group,
   one FINGERPRINT_TEMPLATE_REMOVED per enrollment removed.  Whether the
   authenticator id changes with a removal is the driver's choice. *)
Remove(fids) ==
    /\ hal_state = "idle"
    /\ LET gone == SelectSeq(fids, LAMBDA f : f \in templates[activeGroup]) IN
        /\ templates' = [templates EXCEPT ![activeGroup] = @ \ Range(gone)]
        /\ IF gone = <<>>
           THEN /\ msgs' \in NothingRemoved
                /\ UNCHANGED authId
                /\ since' = SinceAfter({})
           ELSE /\ msgs' = Iterate(FINGERPRINT_TEMPLATE_REMOVED, gone)
                /\ \/ UNCHANGED authId
                   \/ authId < MaxAuthId /\ authId' = NewSetId(authId)
                /\ since' = SinceAfter({"remove"})
    /\ event' = Event("remove", Len(fids))
    /\ UNCHANGED <<hal_state, samples_remaining, finger, activeGroup, prevId, challenges,
                   attempts, strong>>

(* ------------------------------------------------------------------ *)
(* challenges                                                          *)
(* ------------------------------------------------------------------ *)

(* generate_challenge(): a challenge not outstanding, notified with
   FINGERPRINT_CHALLENGE_GENERATED. *)
GenerateChallenge ==
    /\ hal_state = "idle"
    /\ \E c \in Challenges \ challenges :
        /\ challenges' = challenges \cup {c}
        /\ msgs' = <<Msg(FINGERPRINT_CHALLENGE_GENERATED, c, 0)>>
        /\ event' = Event("generate_challenge", c)
    /\ since' = SinceAfter({})
    /\ UNCHANGED <<hal_state, samples_remaining, finger, templates, activeGroup, authId,
                   prevId, attempts, strong>>

(* A revoke_challenge that notifies for an outstanding challenge only. *)
RevokeNoticeKnownOnly(c) ==
    IF c \in challenges THEN <<Msg(FINGERPRINT_CHALLENGE_REVOKED, c, 0)>> ELSE <<>>

(* What revoke_challenge notifies for the value c. *)
RevokeNotice(c) == <<Msg(FINGERPRINT_CHALLENGE_REVOKED, c, 0)>>

(* revoke_challenge(c): c is outstanding no more; the framework is notified
   also when c never was. *)
RevokeChallenge(c) ==
    /\ hal_state = "idle"
    /\ challenges' = challenges \ {c}
    /\ msgs' = RevokeNotice(c)
    /\ event' = Event("revoke_challenge", c)
    /\ since' = SinceAfter({})
    /\ UNCHANGED <<hal_state, samples_remaining, finger, templates, activeGroup, authId,
                   prevId, attempts, strong>>

(* ------------------------------------------------------------------ *)
(* the authenticator id                                                *)
(* ------------------------------------------------------------------ *)

(* get_authenticator_id(): the token of the current fingerprint set.  The
   event keeps what the call before returned. *)
GetAuthenticatorId ==
    /\ hal_state = "idle"
    /\ prevId' = authId
    /\ event' = Event("get_authenticator_id", prevId)
    /\ since' = IF event.name = "get_authenticator_id" THEN {} ELSE since
    /\ msgs' = <<>>
    /\ UNCHANGED <<hal_state, samples_remaining, finger, templates, activeGroup, authId,
                   challenges, attempts, strong>>

(* An invalidate_authenticator_id that ignores the sensor strength. *)
InvalidatedIdAnyStrength(isStrong) == NewSetId(authId)

(* The authenticator id after invalidate_authenticator_id: a new one on a
   STRONG sensor, the same one on any other. *)
InvalidatedId(isStrong) == IF isStrong THEN NewSetId(authId) ELSE authId

(* invalidate_authenticator_id(): notifies the (new) authenticator id. *)
InvalidateAuthenticatorId ==
    /\ hal_state = "idle"
    /\ strong => authId < MaxAuthId
    /\ authId' = InvalidatedId(strong)
    /\ msgs' = <<Msg(FINGERPRINT_AUTHENTICATOR_ID_INVALIDATED, InvalidatedId(strong), 0)>>
    /\ event' = Event("invalidate_authenticator_id", authId)
    /\ since' = SinceAfter(IF strong THEN {"rotate"} ELSE {})
    /\ UNCHANGED <<hal_state, samples_remaining, finger, templates, activeGroup, prevId,
                   challenges, attempts, strong>>

(* ------------------------------------------------------------------ *)
(* The specification                                                   *)
(* ------------------------------------------------------------------ *)
EnrollSteps ==
    \/ Enroll
    \/ EnrollProgress

OperationSteps ==
    \/ \E info \in AcquiredInfos : Acquired(info)
    \/ \E info \in AcquiredInfos : AcquiredFatal(info)
    \/ \E code \in OperationErrors \cup {FINGERPRINT_ERROR_NO_SPACE} : OperationError(code)
    \/ Cancel

AuthenticateSteps ==
    \/ Authenticate
    \/ \E fid \in Fids : Authenticated(fid)
    \/ Rejected

LockoutSteps ==
    \/ \E hatOk \in {0, 1} : ResetLockout(hatOk)
    \/ LockoutTimeout

TemplateSteps ==
    \/ \E gid \in Groups : SetActiveGroup(gid)
    \/ Enumerate
    \/ \E F \in SUBSET Fids \ {{}} : \E fids \in Orders(F) : Remove(fids)

ChallengeSteps ==
    \/ GenerateChallenge
    \/ \E c \in 0..MaxChallenge : RevokeChallenge(c)

AuthenticatorIdSteps ==
    \/ GetAuthenticatorId
    \/ InvalidateAuthenticatorId

(* The whole device. *)
Next ==
    \/ EnrollSteps
    \/ OperationSteps
    \/ AuthenticateSteps
    \/ LockoutSteps
    \/ TemplateSteps
    \/ ChallengeSteps
    \/ AuthenticatorIdSteps

Spec == Init /\ [][Next]_vars

(* The device with enroll, authenticate, cancel and the lockout commands,
   and the notifications of the operation in flight. *)
NextOperation == EnrollSteps \/ OperationSteps \/ AuthenticateSteps \/ LockoutSteps

SpecOperation == Init /\ [][NextOperation]_vars

(* The device with the commands that store, list and remove templates. *)
NextTemplates == EnrollSteps \/ Cancel \/ TemplateSteps

SpecTemplates == Init /\ [][NextTemplates]_vars

(* The device with the challenge commands, and enroll, authenticate and
   cancel. *)
NextChallenge == ChallengeSteps \/ EnrollSteps \/ AuthenticateSteps \/ Cancel

SpecChallenge == Init /\ [][NextChallenge]_vars

(* The device with the authenticator id commands and the commands that may
   come between two calls of get_authenticator_id under one active group. *)
NextAuthenticatorId ==
    \/ AuthenticatorIdSteps
    \/ EnrollSteps
    \/ Cancel
    \/ \E code \in OperationErrors : OperationError(code)
    \/ Authenticate
    \/ \E fid \in Fids : Authenticated(fid)
    \/ Enumerate
    \/ \E F \in SUBSET Fids \ {{}} : \E fids \in Orders(F) : Remove(fids)
    \/ ChallengeSteps

SpecAuthenticatorId == Init /\ [][NextAuthenticatorId]_vars

(* ------------------------------------------------------------------ *)
(* Properties                                                          *)
(* ------------------------------------------------------------------ *)

(* The last message of a log that has one. *)
Last(log) == log[Len(log)]

(* The FINGERPRINT_TEMPLATE_ENROLLING messages of the log, in order. *)
EnrollMsgs == OfType(msgs, FINGERPRINT_TEMPLATE_ENROLLING)

(* C1: whenever the last command accepted is a cancel (it was issued while
   enrolling or authenticating), FINGERPRINT_ERROR with
   FINGERPRINT_ERROR_CANCELED has been delivered as the last message and
   the device is idle: any later command is accepted from that state, and
   none is accepted between the cancel and the return to idle. *)
C1_CancelReturnsToIdle ==
    event.name = "cancel" =>
        /\ hal_state = "idle"
        /\ msgs # <<>>
        /\ Last(msgs) = Error(FINGERPRINT_ERROR_CANCELED)

(* C1 happens: an enrollment that had made progress was cancelled. *)
C1_Witness ==
    /\ event.name = "cancel"
    /\ EnrollMsgs # <<>>

(* C2: the samples_remaining values of the FINGERPRINT_TEMPLATE_ENROLLING
   messages of an enrollment never increase from one message to the next;
   a message with samples_remaining = 0 is the last of them and the device
   is no longer enrolling once it is sent; and a step that stores a
   template (the enrollment succeeded) sends that message with
   samples_remaining = 0 and takes the device from enrolling to idle. *)
C2_SamplesInv ==
    /\ \A i \in 1..Len(EnrollMsgs) - 1 :
        EnrollMsgs[i + 1].remaining <= EnrollMsgs[i].remaining
    /\ \A i \in 1..Len(EnrollMsgs) :
        EnrollMsgs[i].remaining = 0 => i = Len(EnrollMsgs) /\ hal_state # "enrolling"

C2_SuccessStep ==
    (\E g \in Groups : templates'[g] # templates[g] /\ templates[g] \subseteq templates'[g]) =>
        /\ hal_state = "enrolling"
        /\ hal_state' = "idle"
        /\ msgs' # <<>>
        /\ Last(msgs').type = FINGERPRINT_TEMPLATE_ENROLLING
        /\ Last(msgs').remaining = 0
        /\ Last(msgs').data \in templates'[activeGroup] \ templates[activeGroup]

C2_SamplesCountDown == []C2_SamplesInv /\ [][C2_SuccessStep]_vars

(* C2 happens: an enrollment of two samples succeeded. *)
C2_Witness ==
    /\ Len(EnrollMsgs) = 2
    /\ Last(EnrollMsgs).remaining = 0
    /\ hal_state = "idle"
    /\ Last(EnrollMsgs).data \in templates[activeGroup]

(* C3 has no formula: enumerate over no template sends Iterate's empty
   case, one message with finger id 0 and remaining 0, but the comment of
   remove does not say what remove sends when it removes nothing
   (NothingRemoved), so the header does not decide the claim. *)

(* C4, as stated: a call of get_authenticator_id returns a value different
   from the one the call before returned if and only if a template was
   added or removed between the two calls. *)
C4_ChangesIffSetChanged ==
    (event.name = "get_authenticator_id" /\ event.arg # 0) =>
        ((prevId # event.arg) <=> (since \cap {"add", "remove"} # {}))

(* C4, amended: under one active group, a call of get_authenticator_id
   returns a value different from the one the call before returned only if
   a template was added or removed or invalidate_authenticator_id ran on a
   STRONG sensor between the two calls, and it does return a different
   value whenever a template was added by a completed enroll or the id was
   invalidated on a STRONG sensor in between; with none of these in between
   the two calls return the same value. *)
C4_ChangesOnlyWithNewSet ==
    (event.name = "get_authenticator_id" /\ event.arg # 0) =>
        /\ prevId # event.arg => since \cap {"add", "remove", "rotate"} # {}
        /\ since \cap {"add", "rotate"} # {} => prevId # event.arg

(* C4 happens: two calls with a completed enroll between them, the second
   returning another value. *)
C4_Witness ==
    /\ event.name = "get_authenticator_id"
    /\ event.arg # 0
    /\ "add" \in since
    /\ prevId # event.arg

(* C5: revoke_challenge of any value, outstanding or not, is followed by
   exactly the FINGERPRINT_CHALLENGE_REVOKED message for that value; the
   value is not outstanding afterwards, and the revoke of a value that was
   not outstanding (never generated, or revoked before) leaves the set of
   outstanding challenges as it was. *)
C5_RevokeStep ==
    event'.name = "revoke_challenge" =>
        /\ msgs' = <<Msg(FINGERPRINT_CHALLENGE_REVOKED, event'.arg, 0)>>
        /\ challenges' = challenges \ {event'.arg}
        /\ event'.arg \notin challenges => challenges' = challenges

C5_RevokeInv ==
    event.name = "revoke_challenge" =>
        /\ msgs = <<Msg(FINGERPRINT_CHALLENGE_REVOKED, event.arg, 0)>>
        /\ event.arg \notin challenges

C5_RevokeAlwaysNotifies == []C5_RevokeInv /\ [][C5_RevokeStep]_vars

(* C5 happens: a value that was never generated was revoked while another
   challenge was outstanding. *)
C5_Witness ==
    /\ event = Event("revoke_challenge", 0)
    /\ challenges # {}

(* C6: after invalidate_authenticator_id on a sensor that is not STRONG the
   FINGERPRINT_AUTHENTICATOR_ID_INVALIDATED message has been delivered and
   the authenticator id is the one from before the call (kept in the
   event), so get_authenticator_id returns the same value before and
   after. *)
C6_NotStrongKeepsId ==
    (event.name = "invalidate_authenticator_id" /\ ~strong) =>
        /\ authId = event.arg
        /\ msgs = <<Msg(FINGERPRINT_AUTHENTICATOR_ID_INVALIDATED, event.arg, 0)>>

(* C6 happens: the id was read, then invalidated on a sensor that is not
   STRONG. *)
C6_Witness ==
    /\ event.name = "invalidate_authenticator_id"
    /\ ~strong
    /\ prevId # 0

(* C7 has no formula: it is a liveness property of the driver, and the
   header states no timeout of authenticate and no scheduling of the
   driver's notifications that a fairness condition could rest on. *)

(* C8, as stated: every condition under which the operation in flight
   cannot continue is followed by FINGERPRINT_ERROR_CANCELED with the
   device idle. *)
C8_AlwaysCanceled ==
    event.name \in {"acquired_fatal", "error"} =>
        /\ hal_state = "idle"
        /\ msgs # <<>>
        /\ Last(msgs) = Error(FINGERPRINT_ERROR_CANCELED)

(* C8, amended: an acquisition message after which the operation in flight
   cannot continue is followed by FINGERPRINT_ERROR_CANCELED; any other
   condition that ends it (hardware unavailable, bad data, timeout, no
   space, lockout) by the FINGERPRINT_ERROR of that condition; either way
   the device is idle, never left enrolling or authenticating. *)
C8_ErrorEndsOperation ==
    /\ event.name = "acquired_fatal" =>
        /\ hal_state = "idle"
        /\ Len(msgs) >= 2
        /\ msgs[Len(msgs) - 1] = Msg(FINGERPRINT_ACQUIRED, event.arg, 0)
        /\ Last(msgs) = Error(FINGERPRINT_ERROR_CANCELED)
    /\ event.name = "error" =>
        /\ hal_state = "idle"
        /\ msgs # <<>>
        /\ Last(msgs) = Error(event.arg)
    /\ (event.name = "rejected" /\ Lockout) =>
        /\ hal_state = "idle"
        /\ msgs # <<>>
        /\ Last(msgs) = Error(FINGERPRINT_ERROR_LOCKOUT)

(* C8 happens: the sensor got dirty during an enrollment that had made
   progress. *)
C8_Witness ==
    /\ event = Event("acquired_fatal", FINGERPRINT_ACQUIRED_IMAGER_DIRTY)
    /\ EnrollMsgs # <<>>

(* C9: after an enumerate over an active group of n >= 1 templates the log
   holds exactly n FINGERPRINT_TEMPLATE_ENUMERATING messages, their finger
   ids are the n templates of the active group, each once, and the k-th
   has remaining_templates = n - k, so the last has 0. *)
C9_EnumerateActiveGroup ==
    (event.name = "enumerate" /\ templates[activeGroup] # {}) =>
        LET n == Cardinality(templates[activeGroup]) IN
        /\ Len(msgs) = n
        /\ \A k \in 1..n :
            /\ msgs[k].type = FINGERPRINT_TEMPLATE_ENUMERATING
            /\ msgs[k].remaining = n - k
        /\ {msgs[k].data : k \in 1..Len(msgs)} = templates[activeGroup]

(* C9 happens: two templates were enumerated while another group held a
   template. *)
C9_Witness ==
    /\ event.name = "enumerate"
    /\ Cardinality(templates[activeGroup]) = 2
    /\ \E g \in Groups \ {activeGroup} : templates[g] # {}

(* The step delivered FINGERPRINT_RESET_LOCKOUT: the log changed and ends
   with it. *)
ResetNotified ==
    /\ msgs' # msgs
    /\ msgs' # <<>>
    /\ Last(msgs').type = FINGERPRINT_RESET_LOCKOUT

(* C10: a reset_lockout whose token did not verify delivers a
   FINGERPRINT_ERROR and no FINGERPRINT_RESET_LOCKOUT and leaves the lockout
   counter as it was; the lockout ends, and FINGERPRINT_RESET_LOCKOUT is
   delivered, only in a reset_lockout whose token verified or in the
   lockout timeout, and the end of a lockout is always notified. *)
C10_Step ==
    /\ (event'.name = "reset_lockout" /\ event'.arg = 0) =>
        /\ attempts' = attempts
        /\ Len(msgs') = 1
        /\ msgs'[1].type = FINGERPRINT_ERROR
    /\ (Lockout /\ ~Lockout') =>
        /\ event' \in {Event("reset_lockout", 1), Event("lockout_timeout", 0)}
        /\ ResetNotified
    /\ ResetNotified =>
        event' \in {Event("reset_lockout", 1), Event("lockout_timeout", 0)}

C10_ResetNeedsToken == [][C10_Step]_vars

(* C10 happens: in lockout, a reset with a bad token was refused. *)
C10_Witness ==
    /\ event = Event("reset_lockout", 0)
    /\ Lockout
    /\ Len(msgs) = 1
    /\ msgs[1].type = FINGERPRINT_ERROR

====
